---------------------------- MODULE Spec2Model ----------------------------
(***************************************************************************)
(* The streaming-edit throttle of the New Year greeting bot: one greeting  *)
(* session of handleGreeting (src/src/index.js), fed by                    *)
(* generateGreetingStream (openrouter.js) and writing to the Telegram      *)
(* channel through sendMessage / editMessageText (src/src/telegram.js).    *)
(*                                                                         *)
(* Time is the value of Date.now() in milliseconds.  It is taken to be     *)
(* monotonic, and a setTimeout callback runs no earlier than its delay.    *)
(* JavaScript runs every continuation to completion: a timer callback or   *)
(* the settling of a network call is taken only at an await of the main    *)
(* flow, which is what the values of pc are.                               *)
(***************************************************************************)
EXTENDS Integers, Sequences, FiniteSets

(***************************************************************************)
(* Bounds of the model.                                                    *)
(***************************************************************************)
\* The clock advances in steps of Tick milliseconds ...
Tick == 250
\* ... at most MaxTicks times in one session.
MaxTicks == 5
\* The chunk source delivers at most MaxChunks content deltas.
MaxChunks == 3
\* The chat-action interval of the song sub-flow is followed for at most
\* MaxActions firings.
MaxActions == 2

(***************************************************************************)
(* Program constants.                                                      *)
(***************************************************************************)
\* index.js:12
EDIT_THROTTLE_MS == 500

\* Date.now() when the session starts: any clock value past the first
\* interval (the real clock is about 1.7e12).
StartTime == 2 * EDIT_THROTTLE_MS

\* The contents a delta of the stream may carry: a letter or white space.
DeltaContents == {<<"a">>, <<" ">>}

\* The in-progress suffix ' ▌' of index.js:119 and :124, as two characters.
Marker == <<" ", "CURSOR">>

\* The fixed strings of the program, each as a string of its own.
\* getFallbackGreeting(firstName): begins with a letter, ends with a heart.
FallbackGreeting == <<"D", "HEART">>
PlaceholderText == <<"GENERATING">>
ErrorText == <<"SORRY">>

\* The message identifiers Telegram may give the placeholder.
MessageIds == {41, 42}

\* What a call of the Telegram API can come to: data.ok true, data.ok
\* false, or the fetch (or the parse of its body) throwing.
Outcomes == {"ok", "notok", "reject"}

(***************************************************************************)
(* String.prototype.trim on a string of the model's characters.            *)
(***************************************************************************)
IsSpace(c) == c = " "

RECURSIVE TrimStart(_)
TrimStart(s) ==
  IF s # <<>> /\ IsSpace(Head(s)) THEN TrimStart(Tail(s)) ELSE s

RECURSIVE TrimEnd(_)
TrimEnd(s) ==
  IF s # <<>> /\ IsSpace(s[Len(s)]) THEN TrimEnd(SubSeq(s, 1, Len(s) - 1)) ELSE s

trim(s) == TrimEnd(TrimStart(s))

\* s ends with the marker.
EndsWithMarker(s) ==
  /\ Len(s) >= Len(Marker)
  /\ SubSeq(s, Len(s) - Len(Marker) + 1, Len(s)) = Marker

(***************************************************************************)
(* State.                                                                  *)
(***************************************************************************)
VARIABLES
  pc,             \* the await handleGreeting (or the stream) is suspended at
  now,            \* Date.now()
  ticks,          \* how often the clock has advanced
  messageId,      \* index.js:100, 0 before the placeholder is sent
  lastEditTime,   \* index.js:102
  pendingText,    \* index.js:103
  editTimeout,    \* index.js:104: the handle of the timer last scheduled
  timers,         \* the timers the runtime holds scheduled: [id, at]
  fullText,       \* generateGreetingStream: the text so far
  finalGreeting,  \* index.js:130
  completedAt,    \* the time generateGreetingStream returned, 0 before
  chunks,         \* the texts onChunk was called with, in order
  edits,          \* the editMessageText calls issued, in order
  inflight,       \* the indices in edits of the calls not yet settled
  finalResult,    \* what the final edit came to
  sent,           \* the sendMessage calls issued, in order
  success,        \* 'Greeting sent successfully' was logged
  unhandled,      \* a rejection no handler caught
  cur,            \* the session the variables above belong to: 1 or 2
  other,          \* the state of the other session, suspended at an await
  update,         \* index.js:29, the body of the POST /webhook request
  wpc,            \* where the webhook handler of that request is
  route,          \* what handleUpdate decided for the update
  responses,      \* the res.sendStatus calls of the request, in order
  attempt,        \* suno.js:70, the loop counter of pollForCompletion
  polls,          \* the record-info requests issued by pollForCompletion
  ppc,            \* the await pollForCompletion is suspended at
  pollResult,     \* what pollForCompletion returned
  imageLog,       \* how handleImageGeneration ended
  songLog,        \* how handleSongGeneration ended
  actionInterval, \* part_004:355, the 'upload_voice' interval is scheduled
  actions,        \* the chat actions the interval's callback has sent
  lastStatus,     \* suno.js:82, what the latest record-info request came to
  statuses,       \* the onStatus calls issued, in order
  statusThrew,    \* an onStatus call has rejected
  gpc,            \* the await generateSong is suspended at
  songResult,     \* what generateSong came to
  body,           \* the response body of the completion request
  pos,            \* how much of it reader.read() has delivered
  buffer,         \* part_003:320, the unfinished line carried over
  lines           \* part_003:328, the lines of this read still to handle

vars == <<pc, now, ticks, messageId, lastEditTime, pendingText, editTimeout,
          timers, fullText, finalGreeting, completedAt, chunks, edits, inflight,
          finalResult, sent, success, unhandled, cur, other,
          update, wpc, route, responses, attempt, polls, ppc, pollResult,
          imageLog, songLog, actionInterval, actions, lastStatus, statuses,
          statusThrew, gpc, songResult, body, pos, buffer, lines>>

webVars == <<update, wpc, route, responses>>
pollVars == <<attempt, polls, ppc, pollResult, lastStatus, statuses,
              statusThrew>>
intervalVars == <<actionInterval, actions>>
flowVars == <<imageLog, songLog, intervalVars>>
genVars == <<gpc, songResult>>
parseVars == <<body, pos, buffer, lines>>

throttleVars == <<lastEditTime, pendingText, editTimeout, timers>>
streamVars == <<fullText, chunks>>
finalVars == <<finalGreeting, completedAt, finalResult, success>>

\* editTimeout = null, or the handle of a timer that was cleared or has
\* fired.
NoTimer == [pending |-> FALSE, at |-> 0, id |-> 0]

\* clearTimeout(editTimeout): the timer of the handle is no longer
\* scheduled (nothing happens when it has fired or was cleared before).
clearTimeout ==
  timers \ {[id |-> editTimeout.id, at |-> editTimeout.at]}

\* setTimeout(callback, delay) called at the arrival of chunk number id.
setTimeout(id, delay) == [id |-> id, at |-> now + delay]

\* The handle setTimeout returns for timer t.
HandleOf(t) == [pending |-> TRUE, at |-> t.at, id |-> t.id]

\* The variables handleGreeting declares and the logs kept of it, for a
\* session that has not started.
FreshSession ==
  [pc |-> "idle", messageId |-> 0, lastEditTime |-> 0, pendingText |-> <<>>,
   editTimeout |-> NoTimer, timers |-> {}, fullText |-> <<>>,
   finalGreeting |-> <<>>, completedAt |-> 0, chunks |-> <<>>,
   edits |-> <<>>, inflight |-> {}, finalResult |-> "none", sent |-> <<>>,
   success |-> FALSE]

\* A Telegram update as handleUpdate reads it: message and message.from
\* present or not, message.text (NoText when the message is a photo, a
\* sticker, ...), message.from.first_name (NoName when absent), and
\* message.chat.id.
NoText == "NOTEXT"
NoName == "NONAME"
Update(hasMessage, hasFrom, text, firstName, chatId) ==
  [message |-> hasMessage, from |-> hasFrom, text |-> text,
   firstName |-> firstName, chatId |-> chatId]

\* The update of the session followed: handleUpdate has answered 200 and
\* called handleGreeting.
GreetingUpdate == Update(TRUE, TRUE, "/greeting", "Ann", 7)

\* Init with lastEditTime set to the clock instead of 0.
InitLastEditNow ==
  /\ cur = 1
  /\ other = FreshSession
  /\ pc = "idle"
  /\ now = StartTime
  /\ ticks = 0
  /\ messageId = 0
  /\ lastEditTime = StartTime
  /\ pendingText = <<>>
  /\ editTimeout = NoTimer
  /\ timers = {}
  /\ fullText = <<>>
  /\ finalGreeting = <<>>
  /\ completedAt = 0
  /\ chunks = <<>>
  /\ edits = <<>>
  /\ inflight = {}
  /\ finalResult = "none"
  /\ sent = <<>>
  /\ success = FALSE
  /\ unhandled = FALSE
  /\ update = GreetingUpdate
  /\ wpc = "greeting"
  /\ route = "greeting"
  /\ responses = <<200>>
  /\ attempt = 0
  /\ polls = 0
  /\ ppc = "idle"
  /\ pollResult = "none"
  /\ imageLog = "none"
  /\ songLog = "none"
  /\ actionInterval = FALSE
  /\ actions = 0
  /\ lastStatus = "none"
  /\ statuses = <<>>
  /\ statusThrew = FALSE
  /\ gpc = "idle"
  /\ songResult = "none"
  /\ body = <<>>
  /\ pos = 0
  /\ buffer = <<>>
  /\ lines = <<>>

Init ==
  /\ cur = 1
  /\ other = FreshSession
  /\ pc = "idle"
  /\ now = StartTime
  /\ ticks = 0
  /\ messageId = 0
  /\ lastEditTime = 0
  /\ pendingText = <<>>
  /\ editTimeout = NoTimer
  /\ timers = {}
  /\ fullText = <<>>
  /\ finalGreeting = <<>>
  /\ completedAt = 0
  /\ chunks = <<>>
  /\ edits = <<>>
  /\ inflight = {}
  /\ finalResult = "none"
  /\ sent = <<>>
  /\ success = FALSE
  /\ unhandled = FALSE
  /\ update = GreetingUpdate
  /\ wpc = "greeting"
  /\ route = "greeting"
  /\ responses = <<200>>
  /\ attempt = 0
  /\ polls = 0
  /\ ppc = "idle"
  /\ pollResult = "none"
  /\ imageLog = "none"
  /\ songLog = "none"
  /\ actionInterval = FALSE
  /\ actions = 0
  /\ lastStatus = "none"
  /\ statuses = <<>>
  /\ statusThrew = FALSE
  /\ gpc = "idle"
  /\ songResult = "none"
  /\ body = <<>>
  /\ pos = 0
  /\ buffer = <<>>
  /\ lines = <<>>


(***************************************************************************)
(* The Telegram channel (src/src/telegram.js).                             *)
(***************************************************************************)
\* editMessageText called without the identifier of the placeholder.
editMessageTextNoTarget(kind, text, seen) ==
  /\ edits' = Append(edits, [kind |-> kind, text |-> text, msg |-> 0,
                             time |-> now, seen |-> seen])
  /\ inflight' = inflight \cup {Len(edits) + 1}

\* editMessageText(chatId, messageId, text): the request is issued at once
\* and its promise is pending until the call settles.  seen is the number
\* of chunks the session had received when the call was issued.
editMessageText(kind, text, seen) ==
  /\ edits' = Append(edits, [kind |-> kind, text |-> text, msg |-> messageId,
                             time |-> now, seen |-> seen])
  /\ inflight' = inflight \cup {Len(edits) + 1}

\* sendMessage(chatId, text): issued at once.
sendMessage(text) == sent' = Append(sent, text)

\* The calls of the given kind whose promise is pending.
InflightOf(kind) == {i \in inflight : edits[i].kind = kind}

\* The promise of call i settles.
Settle(i) == inflight' = inflight \ {i}

(***************************************************************************)
(* The edit throttle (index.js:102-127).                                   *)
(***************************************************************************)
\* onChunk without the assignment lastEditTime = now of its immediate
\* branch.
onChunkNoStamp(text, pcEdit, pcNoEdit) ==
  /\ pendingText' = text
  /\ chunks' = Append(chunks, text)
  /\ IF now - lastEditTime >= EDIT_THROTTLE_MS
       THEN /\ lastEditTime' = lastEditTime
            /\ editTimeout' = NoTimer
            /\ timers' = clearTimeout
            /\ editMessageText("immediate", text \o Marker, Len(chunks) + 1)
            /\ pc' = pcEdit
       ELSE /\ lastEditTime' = lastEditTime
            /\ LET t == setTimeout(Len(chunks) + 1,
                                    EDIT_THROTTLE_MS - (now - lastEditTime))
               IN /\ editTimeout' = HandleOf(t)
                  /\ timers' = clearTimeout \cup {t}
            /\ UNCHANGED <<edits, inflight>>
            /\ pc' = pcNoEdit

\* onChunk with pendingText assigned only where the edit is immediate.
onChunkStalePending(text, pcEdit, pcNoEdit) ==
  /\ chunks' = Append(chunks, text)
  /\ IF now - lastEditTime >= EDIT_THROTTLE_MS
       THEN /\ pendingText' = text
            /\ lastEditTime' = now
            /\ editTimeout' = NoTimer
            /\ timers' = clearTimeout
            /\ editMessageText("immediate", text \o Marker, Len(chunks) + 1)
            /\ pc' = pcEdit
       ELSE /\ pendingText' = pendingText
            /\ lastEditTime' = lastEditTime
            /\ LET t == setTimeout(Len(chunks) + 1,
                                    EDIT_THROTTLE_MS - (now - lastEditTime))
               IN /\ editTimeout' = HandleOf(t)
                  /\ timers' = clearTimeout \cup {t}
            /\ UNCHANGED <<edits, inflight>>
            /\ pc' = pcNoEdit

\* onChunk without clearTimeout.
onChunkNoClear(text, pcEdit, pcNoEdit) ==
  /\ pendingText' = text
  /\ chunks' = Append(chunks, text)
  /\ IF now - lastEditTime >= EDIT_THROTTLE_MS
       THEN /\ lastEditTime' = now
            /\ editTimeout' = editTimeout
            /\ timers' = timers
            /\ editMessageText("immediate", text \o Marker, Len(chunks) + 1)
            /\ pc' = pcEdit
       ELSE /\ lastEditTime' = lastEditTime
            /\ LET t == setTimeout(Len(chunks) + 1,
                                    EDIT_THROTTLE_MS - (now - lastEditTime))
               IN /\ editTimeout' = HandleOf(t)
                  /\ timers' = timers \cup {t}
            /\ UNCHANGED <<edits, inflight>>
            /\ pc' = pcNoEdit

\* onChunk with the deferred edit scheduled a full interval from now.
onChunkDebounce(text, pcEdit, pcNoEdit) ==
  /\ pendingText' = text
  /\ chunks' = Append(chunks, text)
  /\ IF now - lastEditTime >= EDIT_THROTTLE_MS
       THEN /\ lastEditTime' = now
            /\ editTimeout' = NoTimer
            /\ timers' = clearTimeout
            /\ editMessageText("immediate", text \o Marker, Len(chunks) + 1)
            /\ pc' = pcEdit
       ELSE /\ lastEditTime' = lastEditTime
            /\ LET t == setTimeout(Len(chunks) + 1, EDIT_THROTTLE_MS)
               IN /\ editTimeout' = HandleOf(t)
                  /\ timers' = clearTimeout \cup {t}
            /\ UNCHANGED <<edits, inflight>>
            /\ pc' = pcNoEdit

\* onChunk(text).  pcEdit is where the caller waits while the immediate
\* edit is awaited, pcNoEdit where it goes on when the edit is deferred.
onChunk(text, pcEdit, pcNoEdit) ==
  /\ pendingText' = text
  /\ chunks' = Append(chunks, text)
  /\ IF now - lastEditTime >= EDIT_THROTTLE_MS
       THEN /\ lastEditTime' = now
            /\ editTimeout' = NoTimer
            /\ timers' = clearTimeout
            /\ editMessageText("immediate", text \o Marker, Len(chunks) + 1)
            /\ pc' = pcEdit
       ELSE /\ lastEditTime' = lastEditTime
            /\ LET t == setTimeout(Len(chunks) + 1,
                                    EDIT_THROTTLE_MS - (now - lastEditTime))
               IN /\ editTimeout' = HandleOf(t)
                  /\ timers' = clearTimeout \cup {t}
            /\ UNCHANGED <<edits, inflight>>
            /\ pc' = pcNoEdit

\* The callback given to setTimeout (index.js:122-125).
timerCallback ==
  /\ lastEditTime' = now
  /\ editMessageText("deferred", pendingText \o Marker, Len(chunks))
  /\ UNCHANGED pendingText

\* finalize with the final edit carrying pendingText.
finalizePending(text) ==
  /\ finalGreeting' = text
  /\ completedAt' = now
  /\ editTimeout' = NoTimer
  /\ timers' = clearTimeout
  /\ editMessageText("final", pendingText, Len(chunks))
  /\ pc' = "finalEdit"
  /\ UNCHANGED <<lastEditTime, pendingText>>

\* finalize without clearTimeout.
finalizeKeepTimer(text) ==
  /\ finalGreeting' = text
  /\ completedAt' = now
  /\ editTimeout' = editTimeout
  /\ timers' = timers
  /\ editMessageText("final", text, Len(chunks))
  /\ pc' = "finalEdit"
  /\ UNCHANGED <<lastEditTime, pendingText>>

\* finalize with the marker appended as in the other edits.
finalizeWithMarker(text) ==
  /\ finalGreeting' = text
  /\ completedAt' = now
  /\ editTimeout' = NoTimer
  /\ timers' = clearTimeout
  /\ editMessageText("final", text \o Marker, Len(chunks))
  /\ pc' = "finalEdit"
  /\ UNCHANGED <<lastEditTime, pendingText>>

\* finalize with the final edit held back inside the throttle interval.
finalizeThrottled(text) ==
  /\ finalGreeting' = text
  /\ completedAt' = now
  /\ editTimeout' = NoTimer
  /\ timers' = clearTimeout
  /\ IF now - lastEditTime >= EDIT_THROTTLE_MS
       THEN editMessageText("final", text, Len(chunks))
       ELSE UNCHANGED <<edits, inflight>>
  /\ pc' = "finalEdit"
  /\ UNCHANGED <<lastEditTime, pendingText>>

\* finalize with an edit that would repeat the text last received left out.
finalizeSkipDuplicate(text) ==
  /\ finalGreeting' = text
  /\ completedAt' = now
  /\ editTimeout' = NoTimer
  /\ timers' = clearTimeout
  /\ IF text = pendingText
       THEN UNCHANGED <<edits, inflight>>
       ELSE editMessageText("final", text, Len(chunks))
  /\ pc' = "finalEdit"
  /\ UNCHANGED <<lastEditTime, pendingText>>

\* finalize with no edit issued for an empty text.
finalizeSkipEmpty(text) ==
  /\ finalGreeting' = text
  /\ completedAt' = now
  /\ editTimeout' = NoTimer
  /\ timers' = clearTimeout
  /\ IF text = <<>>
       THEN UNCHANGED <<edits, inflight>>
       ELSE editMessageText("final", text, Len(chunks))
  /\ pc' = "finalEdit"
  /\ UNCHANGED <<lastEditTime, pendingText>>

\* index.js:130-138: generateGreetingStream has returned text; the pending
\* timer is cleared and the final edit issued.
finalize(text) ==
  /\ finalGreeting' = text
  /\ completedAt' = now
  /\ editTimeout' = NoTimer
  /\ timers' = clearTimeout
  /\ editMessageText("final", text, Len(chunks))
  /\ pc' = "finalEdit"
  /\ UNCHANGED <<lastEditTime, pendingText>>

\* index.js:141-147: the catch of handleGreeting.
catchError ==
  /\ sendMessage(ErrorText)
  /\ pc' = "errorSend"

\* The catch of generateGreetingStream: the fallback is delivered as a chunk
\* and then returned.
streamCatch == onChunk(FallbackGreeting, "fallbackEdit", "fallbackReturn")

\* A continuation is running (the return of the fallback follows onChunk
\* without a turn of the event loop): no timer and no response is handled.
EventLoopFree == pc # "fallbackReturn"

\* The process runs.  The program uses the global fetch, so its Node is 18
\* or later, where a rejection that nothing handles ends the process.
Alive == ~unhandled

\* A step of the session in the foreground: the process runs and the other
\* session stays where it is suspended.
Runs ==
  /\ Alive
  /\ UNCHANGED <<cur, other, webVars, pollVars, flowVars, genVars, parseVars>>

(***************************************************************************)
(* handleGreeting (index.js:91-148).                                       *)
(***************************************************************************)
\* handleGreeting is called: sendTypingAction is awaited.
Start ==
  /\ Runs
  /\ wpc = "greeting"
  /\ pc = "idle"
  /\ pc' = "typing"
  /\ UNCHANGED <<now, ticks, messageId, throttleVars, streamVars, finalVars,
                 edits, inflight, sent, unhandled>>

\* sendTypingAction settles.  It returns whatever Telegram answered; only
\* a failing fetch throws.  Then the placeholder is sent.
TypingSettles(o) ==
  /\ Runs
  /\ pc = "typing"
  /\ IF o = "reject"
       THEN catchError
       ELSE /\ sendMessage(PlaceholderText)
            /\ pc' = "placeholder"
  /\ UNCHANGED <<now, ticks, messageId, throttleVars, streamVars, finalVars,
                 edits, inflight, unhandled>>

\* The placeholder's sendMessage settles.  It throws unless data.ok; with
\* the identifier known the stream is started (its fetch is awaited).
PlaceholderSettles(o, id) ==
  /\ Runs
  /\ pc = "placeholder"
  /\ IF o = "ok"
       THEN /\ messageId' = id
            /\ pc' = "fetching"
            /\ UNCHANGED sent
       ELSE /\ catchError
            /\ UNCHANGED messageId
  /\ UNCHANGED <<now, ticks, throttleVars, streamVars, finalVars,
                 edits, inflight, unhandled>>

\* The final edit settles.  editMessageText returns data whether or not
\* data.ok; only a failing fetch throws.
FinalEditSettles(o, i) ==
  /\ Runs
  /\ pc = "finalEdit"
  /\ i \in InflightOf("final")
  /\ Settle(i)
  /\ finalResult' = o
  /\ IF o = "reject"
       THEN /\ catchError
            /\ UNCHANGED success
       ELSE /\ success' = TRUE
            /\ pc' = "done"
            /\ UNCHANGED sent
  /\ UNCHANGED <<now, ticks, messageId, throttleVars, streamVars,
                 finalGreeting, completedAt, edits, unhandled>>

\* The sendMessage of the catch settles.  When it throws, handleGreeting
\* rejects, and so does handleUpdate; the webhook handler's catch then
\* calls res.sendStatus a second time, which throws in an async handler:
\* Express 4 leaves that rejection to nobody, Express 5 hands it to its
\* error handling.  Either may be installed.
ErrorSendSettles(o) ==
  /\ Alive
  /\ pc = "errorSend"
  /\ pc' = "failed"
  /\ responses' = IF o = "ok" THEN responses ELSE Append(responses, 200)
  /\ \E escapes \in BOOLEAN : unhandled' = (escapes /\ o # "ok")
  /\ UNCHANGED <<cur, other, update, wpc, route, pollVars, flowVars, genVars, parseVars>>
  /\ UNCHANGED <<now, ticks, messageId, throttleVars, streamVars, finalVars,
                 edits, inflight, sent>>

(***************************************************************************)
(* generateGreetingStream (openrouter.js).                                 *)
(***************************************************************************)
\* The fetch settles: with response.ok the body is read, otherwise the
\* catch delivers the fallback.
FetchSettles(o) ==
  /\ Runs
  /\ pc = "fetching"
  /\ IF o = "ok"
       THEN /\ pc' = "reading"
            /\ UNCHANGED <<throttleVars, chunks, edits, inflight>>
       ELSE streamCatch
  /\ UNCHANGED <<now, ticks, messageId, fullText, finalVars, sent, unhandled>>

\* ReadDelta with onChunk called and not awaited.
ReadDeltaNoAwait(d) ==
  /\ Runs
  /\ pc = "reading"
  /\ Len(chunks) < MaxChunks
  /\ fullText' = fullText \o d
  /\ onChunk(fullText', "reading", "reading")
  /\ UNCHANGED <<now, ticks, messageId, finalVars, sent, unhandled>>

\* A data line with a non-empty delta: fullText grows and onChunk is
\* awaited.
ReadDelta(d) ==
  /\ Runs
  /\ pc = "reading"
  /\ Len(chunks) < MaxChunks
  /\ fullText' = fullText \o d
  /\ onChunk(fullText', "chunkEdit", "reading")
  /\ UNCHANGED <<now, ticks, messageId, finalVars, sent, unhandled>>

\* The immediate edit awaited by onChunk settles.  A rejection is thrown
\* into the try around the line's handling, whose catch ignores it.
ChunkEditSettles(o, i) ==
  /\ Runs
  /\ pc = "chunkEdit"
  /\ i \in InflightOf("immediate")
  /\ Settle(i)
  /\ pc' = "reading"
  /\ UNCHANGED <<now, ticks, messageId, throttleVars, streamVars, finalVars,
                 edits, sent, unhandled>>

\* ReadDone returning fullText as it is.
ReadDoneNoTrim ==
  /\ Runs
  /\ pc = "reading"
  /\ finalize(fullText)
  /\ UNCHANGED <<now, ticks, messageId, streamVars, finalResult, success,
                 sent, unhandled>>

\* reader.read() reports done: the trimmed text is returned.
ReadDone ==
  /\ Runs
  /\ pc = "reading"
  /\ finalize(trim(fullText))
  /\ UNCHANGED <<now, ticks, messageId, streamVars, finalResult, success,
                 sent, unhandled>>

\* reader.read() rejects.
ReadError ==
  /\ Runs
  /\ pc = "reading"
  /\ streamCatch
  /\ UNCHANGED <<now, ticks, messageId, fullText, finalVars, sent, unhandled>>

\* The immediate edit of the fallback chunk settles.  Here a rejection
\* leaves generateGreetingStream and reaches the catch of handleGreeting.
FallbackEditSettles(o, i) ==
  /\ Runs
  /\ pc = "fallbackEdit"
  /\ i \in InflightOf("immediate")
  /\ Settle(i)
  /\ IF o = "reject"
       THEN catchError
       ELSE /\ pc' = "fallbackReturn"
            /\ UNCHANGED sent
  /\ UNCHANGED <<now, ticks, messageId, throttleVars, streamVars, finalVars,
                 edits, unhandled>>

\* The catch returns the fallback.
FallbackReturn ==
  /\ Runs
  /\ pc = "fallbackReturn"
  /\ finalize(FallbackGreeting)
  /\ UNCHANGED <<now, ticks, messageId, streamVars, finalResult, success,
                 sent, unhandled>>

(***************************************************************************)
(* The event loop: the timer, the calls nobody awaits, the clock.          *)
(***************************************************************************)
\* The scheduled timer fires, no earlier than its delay.
TimerFire ==
  /\ Runs
  /\ EventLoopFree
  /\ \E t \in timers :
       /\ now >= t.at
       /\ timers' = timers \ {t}
       /\ editTimeout' = IF editTimeout.id = t.id THEN NoTimer ELSE editTimeout
  /\ timerCallback
  /\ UNCHANGED <<pc, now, ticks, messageId, streamVars, finalVars, sent,
                 unhandled>>

\* The edit issued by the timer's callback settles; nothing awaits the
\* callback's promise, so a rejection is handled by nobody.
TimerEditSettles(o, i) ==
  /\ Runs
  /\ EventLoopFree
  /\ i \in InflightOf("deferred")
  /\ Settle(i)
  /\ unhandled' = (o = "reject")
  /\ UNCHANGED <<pc, now, ticks, messageId, throttleVars, streamVars,
                 finalVars, edits, sent>>

\* Time passes.
Advance ==
  /\ Runs
  /\ EventLoopFree
  /\ pc # "idle"
  /\ ticks < MaxTicks
  /\ ticks' = ticks + 1
  /\ now' = now + Tick
  /\ UNCHANGED <<pc, messageId, throttleVars, streamVars, finalVars, edits,
                 inflight, sent, unhandled>>

Next ==
  \/ Start
  \/ \E o \in Outcomes : TypingSettles(o)
  \/ \E o \in Outcomes, id \in MessageIds : PlaceholderSettles(o, id)
  \/ \E o \in Outcomes : FetchSettles(o)
  \/ \E d \in DeltaContents : ReadDelta(d)
  \/ \E o \in Outcomes, i \in inflight : ChunkEditSettles(o, i)
  \/ ReadDone
  \/ ReadError
  \/ \E o \in Outcomes, i \in inflight : FallbackEditSettles(o, i)
  \/ FallbackReturn
  \/ \E o \in Outcomes, i \in inflight : FinalEditSettles(o, i)
  \/ \E o \in Outcomes : ErrorSendSettles(o)
  \/ TimerFire
  \/ \E o \in Outcomes, i \in inflight : TimerEditSettles(o, i)
  \/ Advance

Spec == Init /\ [][Next]_vars

(***************************************************************************)
(* The log of edit calls.                                                  *)
(***************************************************************************)
EditIdx == 1..Len(edits)
NonFinalIdx == {i \in EditIdx : edits[i].kind # "final"}
FinalIdx == {i \in EditIdx : edits[i].kind = "final"}

\* What generateGreetingStream returns: the fallback when its catch ran
\* (the fallback is then the last chunk), the trimmed text otherwise.
CompletionText ==
  IF chunks # <<>> /\ chunks[Len(chunks)] = FallbackGreeting
    THEN FallbackGreeting
    ELSE trim(fullText)

\* A chunk arrived after the last edit call issued before the final one:
\* completion found a deferred edit scheduled.
CompletedOverPendingTimer ==
  /\ FinalIdx # {}
  /\ \E i \in NonFinalIdx :
       /\ \A j \in NonFinalIdx : j <= i
       /\ edits[i].seen < Len(chunks)

(***************************************************************************)
(* C1.  Any two edit calls of a session other than the final one are       *)
(* issued at least EDIT_THROTTLE_MS apart.                                 *)
(***************************************************************************)
C1_MinInterval ==
  \A i, j \in NonFinalIdx :
    i < j => edits[j].time - edits[i].time >= EDIT_THROTTLE_MS

\* An immediate edit, a deferred edit exactly one interval later and a
\* third edit after that.
C1_Witness ==
  \E i \in NonFinalIdx :
    /\ i + 2 \in NonFinalIdx
    /\ edits[i + 1].kind = "deferred"
    /\ edits[i + 1].time - edits[i].time = EDIT_THROTTLE_MS

(***************************************************************************)
(* C2.  The text of the final edit call is the completion text of the      *)
(* chunk source, with no marker at its end.                                *)
(***************************************************************************)
C2_FinalTextIsCompletion ==
  \A i \in FinalIdx :
    /\ edits[i].text = CompletionText
    /\ ~EndsWithMarker(edits[i].text)

\* A final edit whose completion text differs from the text pending in the
\* throttle.
C2_Witness ==
  \E i \in FinalIdx :
    /\ chunks # <<>>
    /\ edits[i].text # pendingText
    /\ edits[i].text # <<>>

(***************************************************************************)
(* C3, as stated.  The final edit carries the last chunk delivered to the  *)
(* throttle (the text a cancelled timer would have carried), character     *)
(* for character.                                                          *)
(***************************************************************************)
C3_FinalIsLastChunkVerbatim ==
  \A i \in FinalIdx :
    chunks # <<>> =>
      /\ edits[i].text = chunks[Len(chunks)]
      /\ edits[i].text = pendingText

(***************************************************************************)
(* C3, amended.  The final edit carries the last chunk delivered to the    *)
(* throttle with the white space at its ends removed; that chunk is the    *)
(* text the throttle holds as pendingText, which a cancelled timer would   *)
(* have carried.                                                           *)
(***************************************************************************)
C3_FinalIsLastChunkTrimmed ==
  \A i \in FinalIdx :
    chunks # <<>> =>
      /\ pendingText = chunks[Len(chunks)]
      /\ edits[i].text = trim(pendingText)

\* Completion cancelled a scheduled timer whose chunk ended in white space.
C3_Witness ==
  /\ CompletedOverPendingTimer
  /\ pendingText # trim(pendingText)
  /\ trim(pendingText) # <<>>

(***************************************************************************)
(* C4.  Every edit call but the final one carries the most recent chunk    *)
(* the session had received when the call was issued, followed by the      *)
(* marker.                                                                 *)
(***************************************************************************)
C4_NonFinalCarriesLatestChunk ==
  \A i \in NonFinalIdx :
    /\ edits[i].seen \in 1..Len(chunks)
    /\ edits[i].text = chunks[edits[i].seen] \o Marker

\* A deferred edit that carries a chunk which superseded an earlier chunk
\* no edit call ever carried.
C4_Witness ==
  \E i \in NonFinalIdx :
    /\ edits[i].kind = "deferred"
    /\ \E k \in 1..(edits[i].seen - 1) :
         \A j \in EditIdx : edits[j].text # chunks[k] \o Marker

(***************************************************************************)
(* C5.  The chunk whose text an edit call carries never precedes the chunk *)
(* carried by an edit call issued before it; the final edit counts as      *)
(* carrying the newest text.                                               *)
(***************************************************************************)
\* The chunks whose text edit call i carries.
ChunksCarried(i) ==
  IF edits[i].kind = "final"
    THEN {Len(chunks) + 1}
    ELSE {k \in 1..Len(chunks) : chunks[k] \o Marker = edits[i].text}

C5_MonotonicFreshness ==
  \A i, j \in EditIdx :
    i < j =>
      \E ki \in ChunksCarried(i), kj \in ChunksCarried(j) : ki <= kj

\* Three edit calls, each carrying a newer text than the one before it.
C5_Witness ==
  /\ Len(edits) >= 3
  /\ \A i, j \in EditIdx :
       i < j => \A ki \in ChunksCarried(i), kj \in ChunksCarried(j) : ki < kj
  /\ \E i \in EditIdx : edits[i].kind = "deferred"

(***************************************************************************)
(* C6, as stated.  No edit call is issued while an earlier edit call of    *)
(* the session is still pending.                                           *)
(***************************************************************************)
C6_NoOverlappingEdits == Cardinality(inflight) <= 1

(***************************************************************************)
(* C7.  Once generateGreetingStream has returned, the final edit has been  *)
(* issued, at the very time of the return, whatever the time since the     *)
(* edit before it and whether or not a timer was scheduled.                *)
(***************************************************************************)
C7_FinalEditAtCompletion ==
  completedAt # 0 =>
    \E i \in FinalIdx : edits[i].time = completedAt

\* A final edit issued over a scheduled timer, less than an interval after
\* the edit call before it.
C7_Witness ==
  /\ CompletedOverPendingTimer
  /\ \E i \in FinalIdx :
       /\ i > 1
       /\ edits[i].time = completedAt
       /\ edits[i].time - edits[i - 1].time < EDIT_THROTTLE_MS
       /\ edits[i].time > edits[i - 1].time

(***************************************************************************)
(* C8.  The final edit is the last edit call of the session: once the      *)
(* stream has completed no timer is scheduled, exactly one edit call is    *)
(* final, it is the last of the log, and it is the only one without the    *)
(* marker.                                                                 *)
(***************************************************************************)
C8_FinalEditIsLast ==
  /\ \A i \in FinalIdx : i = Len(edits)
  /\ \A i \in EditIdx : (edits[i].kind = "final") <=> ~EndsWithMarker(edits[i].text)
  /\ completedAt # 0 =>
       /\ ~editTimeout.pending
       /\ Cardinality(FinalIdx) = 1

\* The session is done, its final edit settled, and the time at which the
\* timer cancelled by completion would have fired has passed.
C8_Witness ==
  /\ CompletedOverPendingTimer
  /\ pc = "done"
  /\ inflight = {}
  /\ now >= lastEditTime + EDIT_THROTTLE_MS
  /\ completedAt < lastEditTime + EDIT_THROTTLE_MS

(***************************************************************************)
(* C9, as stated.  The session takes the success path only if its final    *)
(* edit call succeeded.                                                    *)
(***************************************************************************)
C9_SuccessOnlyIfFinalEditOk == success => finalResult = "ok"

(***************************************************************************)
(* C10, as stated.  When the final edit call has failed, a sendMessage     *)
(* carrying the final greeting text has been issued.                       *)
(***************************************************************************)
C10_FailedFinalEditResendsGreeting ==
  finalResult \in {"notok", "reject"} =>
    \E k \in 1..Len(sent) : sent[k] = finalGreeting

(***************************************************************************)
(* The course of a session.                                                *)
(***************************************************************************)
\* The catch of generateGreetingStream has run: the fallback was delivered.
StreamFailed == chunks # <<>> /\ chunks[Len(chunks)] = FallbackGreeting

\* The generic failure messages sent.
Notices == {k \in 1..Len(sent) : sent[k] = ErrorText}

\* The state of the request: 0 Idle, 1 Sending Placeholder, 2 Streaming,
\* 3 Finalizing, 4 Done or Failed (the catch of handleGreeting included).
Phase(p) ==
  CASE p = "idle" -> 0
    [] p \in {"typing", "placeholder"} -> 1
    [] p \in {"fetching", "reading", "chunkEdit", "fallbackEdit",
              "fallbackReturn"} -> 2
    [] p = "finalEdit" -> 3
    [] p \in {"done", "errorSend", "failed"} -> 4

\* A step of handleGreeting after the stream has returned.
FinishingStep ==
  \E o \in Outcomes :
    \/ \E i \in inflight : FinalEditSettles(o, i)
    \/ ErrorSendSettles(o)

(***************************************************************************)
(* C11, as stated.  A session whose final edit failed, and which nothing   *)
(* recovered, ends Failed with exactly one generic failure message sent.   *)
(***************************************************************************)
C11_FailedFinalEditEndsFailedWithOneNotice ==
  (finalResult \in {"notok", "reject"} /\ pc \in {"done", "failed"}) =>
    /\ pc = "failed"
    /\ Cardinality(Notices) = 1

(***************************************************************************)
(* C12, as stated.  A failed edit call other than the final one does not   *)
(* abort the stream or the session: as long as only such edits have been   *)
(* issued, the process runs and handleGreeting is not in its catch.        *)
(***************************************************************************)
C12_IntermediateEditFailureAbortsNothing ==
  (edits # <<>> /\ FinalIdx = {}) =>
    /\ Alive
    /\ pc \notin {"errorSend", "failed"}

(***************************************************************************)
(* C13, as stated.  After an upstream failure generateGreetingStream       *)
(* returns the fallback greeting and never rejects: handleGreeting is in   *)
(* its catch only after the stream has returned the fallback.              *)
(***************************************************************************)
C13_StreamFailureNeverPropagates ==
  (StreamFailed /\ pc \in {"errorSend", "failed"}) =>
    /\ completedAt # 0
    /\ finalGreeting = FallbackGreeting

(***************************************************************************)
(* C14, as stated.  Whatever outbound calls fail, no rejection escapes     *)
(* unhandled.                                                              *)
(***************************************************************************)
C14_NoRejectionEscapes == ~unhandled

(***************************************************************************)
(* C15.  A request only moves forward through Idle, Sending Placeholder,   *)
(* Streaming, Finalizing, Done or Failed; the stream is started only with  *)
(* the placeholder's identifier known, which then never changes; every     *)
(* edit call targets that identifier; and without it no chunk is consumed  *)
(* and no edit issued.                                                     *)
(***************************************************************************)
C15_ForwardWithPlaceholderId ==
  /\ [](/\ Phase(pc) \in {2, 3} => messageId \in MessageIds
        /\ \A i \in EditIdx : edits[i].msg = messageId /\ messageId \in MessageIds
        /\ messageId = 0 => (chunks = <<>> /\ fullText = <<>> /\ edits = <<>>))
  /\ [][/\ Phase(pc') >= Phase(pc)
        /\ messageId # 0 => messageId' = messageId]_vars

\* A session that went through all states: placeholder 42 edited by an
\* immediate, a deferred and the final edit.
C15_Witness ==
  /\ pc = "done"
  /\ messageId = 42
  /\ Cardinality(NonFinalIdx) >= 2
  /\ \E i \in EditIdx : edits[i].kind = "deferred"

(***************************************************************************)
(* C16, as stated.  A session whose stream has returned reaches Done or    *)
(* Failed: until then a step of handleGreeting is always still to come.    *)
(***************************************************************************)
C16_CompletedSessionEnds ==
  completedAt # 0 =>
    \/ pc \in {"done", "failed"}
    \/ ENABLED FinishingStep

(***************************************************************************)
(* C18.  At every moment at most one deferred-edit timer of the session    *)
(* is scheduled.                                                           *)
(***************************************************************************)
C18_AtMostOneTimer ==
  /\ Cardinality(timers) <= 1
  /\ editTimeout.pending <=> timers # {}

\* A timer scheduled by a chunk that replaced the timer of the chunk
\* before it.
C18_Witness ==
  \E t \in timers :
    /\ t.id >= 3
    /\ \A i \in EditIdx : edits[i].seen < t.id - 1

(***************************************************************************)
(* C19.  The first chunk of a session is edited in at once, never          *)
(* deferred, whenever it arrives.                                          *)
(***************************************************************************)
C19_FirstChunkImmediate ==
  chunks # <<>> =>
    /\ edits # <<>>
    /\ edits[1].kind = "immediate"
    /\ edits[1].seen = 1
    /\ edits[1].text = chunks[1] \o Marker

\* A first chunk that arrived some time into the session, and a later
\* chunk whose edit was deferred.
C19_Witness ==
  /\ Len(edits) >= 2
  /\ edits[1].kind = "immediate"
  /\ edits[1].time > StartTime
  /\ edits[2].kind = "deferred"

(***************************************************************************)
(* C20.  Completion with the very text of the chunk before it still        *)
(* issues the final edit, once.                                            *)
(***************************************************************************)
C20_DuplicateFinalEditStillIssued ==
  (completedAt # 0 /\ chunks # <<>> /\ chunks[Len(chunks)] = finalGreeting) =>
    /\ Cardinality(FinalIdx) = 1
    /\ Len(edits) = Cardinality(NonFinalIdx) + 1
    /\ edits[Len(edits)].text = finalGreeting

\* The last chunk was edited in at once and completion, with the same
\* text, came at the same time.
C20_Witness ==
  /\ completedAt # 0
  /\ chunks # <<>>
  /\ chunks[Len(chunks)] = finalGreeting
  /\ ~StreamFailed
  /\ \E i \in NonFinalIdx :
       /\ edits[i].seen = Len(chunks)
       /\ edits[i].time = completedAt

(***************************************************************************)
(* Two greeting requests at once.  Every call of handleGreeting has its    *)
(* own messageId, lastEditTime, pendingText and editTimeout (index.js:     *)
(* 98-104, declared inside the function); the event loop runs one          *)
(* continuation at a time, of either call.  The variables hold the locals  *)
(* of the call whose continuation runs, `other' those of the second call.  *)
(***************************************************************************)
MaxChunks2 == 2
MaxTicks2 == 3

\* The locals of the call whose continuation runs.
Session ==
  [pc |-> pc, messageId |-> messageId, lastEditTime |-> lastEditTime,
   pendingText |-> pendingText, editTimeout |-> editTimeout,
   timers |-> timers, fullText |-> fullText,
   finalGreeting |-> finalGreeting, completedAt |-> completedAt,
   chunks |-> chunks, edits |-> edits, inflight |-> inflight,
   finalResult |-> finalResult, sent |-> sent, success |-> success]

\* Switch with pendingText declared once for the module instead of once
\* per call.
SwitchSharedPending ==
  /\ Alive
  /\ EventLoopFree
  /\ cur' = 3 - cur
  /\ other' = Session
  /\ pc' = other.pc
  /\ messageId' = other.messageId
  /\ lastEditTime' = other.lastEditTime
  /\ pendingText' = pendingText
  /\ editTimeout' = other.editTimeout
  /\ timers' = other.timers
  /\ fullText' = other.fullText
  /\ finalGreeting' = other.finalGreeting
  /\ completedAt' = other.completedAt
  /\ chunks' = other.chunks
  /\ edits' = other.edits
  /\ inflight' = other.inflight
  /\ finalResult' = other.finalResult
  /\ sent' = other.sent
  /\ success' = other.success
  /\ UNCHANGED <<now, ticks, unhandled, webVars, pollVars, flowVars, genVars, parseVars>>

\* The event loop turns to a continuation of the other call: at an await
\* of this one, or at the arrival of the second update.
Switch ==
  /\ Alive
  /\ EventLoopFree
  /\ cur' = 3 - cur
  /\ other' = Session
  /\ pc' = other.pc
  /\ messageId' = other.messageId
  /\ lastEditTime' = other.lastEditTime
  /\ pendingText' = other.pendingText
  /\ editTimeout' = other.editTimeout
  /\ timers' = other.timers
  /\ fullText' = other.fullText
  /\ finalGreeting' = other.finalGreeting
  /\ completedAt' = other.completedAt
  /\ chunks' = other.chunks
  /\ edits' = other.edits
  /\ inflight' = other.inflight
  /\ finalResult' = other.finalResult
  /\ sent' = other.sent
  /\ success' = other.success
  /\ UNCHANGED <<now, ticks, unhandled, webVars, pollVars, flowVars, genVars, parseVars>>

\* Two calls whose outbound requests all succeed; Telegram gives the two
\* placeholders different identifiers, and every delta is one letter.
TwoNext ==
  \/ Start
  \/ TypingSettles("ok")
  \/ \E id \in MessageIds \ {other.messageId} : PlaceholderSettles("ok", id)
  \/ FetchSettles("ok")
  \/ Len(chunks) < MaxChunks2 /\ ReadDelta(<<"a">>)
  \/ \E i \in inflight : ChunkEditSettles("ok", i)
  \/ ReadDone
  \/ \E i \in inflight : FinalEditSettles("ok", i)
  \/ TimerFire
  \/ \E i \in inflight : TimerEditSettles("ok", i)
  \/ ticks < MaxTicks2 /\ Advance
  \/ Switch

TwoSpec == Init /\ [][TwoNext]_vars

\* The edit calls of session s carry its own chunks, target its own
\* placeholder, and keep the interval among themselves.
OwnEdits(s) ==
  LET idx == 1..Len(s.edits)
      nonFinal == {i \in idx : s.edits[i].kind # "final"}
  IN /\ \A i \in idx :
          /\ s.edits[i].msg = s.messageId
          /\ IF s.edits[i].kind = "final"
               THEN s.edits[i].text = s.finalGreeting
               ELSE /\ s.edits[i].seen \in 1..Len(s.chunks)
                    /\ s.edits[i].text = s.chunks[s.edits[i].seen] \o Marker
     /\ \A i, j \in nonFinal :
          i < j => s.edits[j].time - s.edits[i].time >= EDIT_THROTTLE_MS
     /\ s.timers = IF s.editTimeout.pending
                     THEN {[id |-> s.editTimeout.id, at |-> s.editTimeout.at]}
                     ELSE {}
     /\ s.pendingText = IF s.chunks = <<>> THEN <<>>
                                           ELSE s.chunks[Len(s.chunks)]

(***************************************************************************)
(* C17.  Two concurrent sessions are independent: a step of one leaves     *)
(* the lastEditTime, pendingText, timer and every other local of the       *)
(* second untouched, so the edits of each carry only its own chunk text,   *)
(* target only its own placeholder, and keep the interval T among          *)
(* themselves only.                                                        *)
(***************************************************************************)
C17_SessionsIndependent ==
  /\ [](/\ OwnEdits(Session)
        /\ OwnEdits(other)
        /\ messageId # 0 => messageId # other.messageId)
  /\ [][cur' = cur => other' = other]_vars

\* Both sessions had a deferred edit, with different texts on screen, and
\* an edit of one fell less than T after an edit of the second.
C17_Witness ==
  /\ \E i \in 1..Len(edits) : edits[i].kind = "deferred"
  /\ \E j \in 1..Len(other.edits) : other.edits[j].kind = "deferred"
  /\ \E i \in 1..Len(edits), j \in 1..Len(other.edits) :
       /\ edits[i].kind # "final"
       /\ other.edits[j].kind # "final"
       /\ edits[i].time - other.edits[j].time \in 1..(EDIT_THROTTLE_MS - 1)
       /\ edits[i].text # other.edits[j].text

(***************************************************************************)
(* The throttle of handleGreeting under scripted chunk sources: the        *)
(* deltas arrive at stated times after the first one, and the stream       *)
(* returns a stated text at a stated time.  All times are offsets from     *)
(* StartTime, in milliseconds.                                             *)
(***************************************************************************)
\* Three chunks 10 ms apart, completion with one more character at 30 ms.
ScriptBurst ==
  [deltas |-> << <<"A">>, <<"B">>, <<"C">> >>,
   texts  |-> << <<"A">>, <<"A", "B">>, <<"A", "B", "C">> >>,
   at     |-> <<0, 10, 20>>,
   doneAt |-> 30,
   final  |-> <<"A", "B", "C", ".">>,
   until  |-> 600]

\* Three chunks, each more than the interval after the one before.
ScriptSlow ==
  [deltas |-> << <<"X">>, <<"Y">>, <<"Z">> >>,
   texts  |-> << <<"X">>, <<"X", "Y">>, <<"X", "Y", "Z">> >>,
   at     |-> <<0, 600, 1300>>,
   doneAt |-> 1400,
   final  |-> <<"X", "Y", "Z">>,
   until  |-> 1500]

Scripts == {ScriptBurst, ScriptSlow}

\* The chunks delivered so far are the first chunks of script s.
OnScript(s) ==
  /\ Len(chunks) <= Len(s.texts)
  /\ \A k \in 1..Len(chunks) : chunks[k] = s.texts[k]

\* The time of the next event of script s: its next chunk, its
\* completion, and after that the end of the observation.
NextEventAt(s) ==
  IF completedAt # 0 THEN StartTime + s.until
  ELSE IF Len(chunks) < Len(s.texts) THEN StartTime + s.at[Len(chunks) + 1]
  ELSE StartTime + s.doneAt

\* part_003:337-344 at the script's time: the next delta is read and
\* onChunk awaited.
ScriptDelta(s) ==
  /\ OnScript(s)
  /\ Len(chunks) < Len(s.deltas)
  /\ now = StartTime + s.at[Len(chunks) + 1]
  /\ ReadDelta(s.deltas[Len(chunks) + 1])

\* index.js:130 at the script's time: generateGreetingStream returns the
\* script's text.
ScriptDone(s) ==
  /\ Runs
  /\ OnScript(s)
  /\ Len(chunks) = Len(s.deltas)
  /\ now = StartTime + s.doneAt
  /\ pc = "reading"
  /\ finalize(s.final)
  /\ UNCHANGED <<now, ticks, messageId, streamVars, finalResult, success,
                 sent, unhandled>>

\* Ten milliseconds pass, up to the script's next event.
ScriptAdvance(s) ==
  /\ Runs
  /\ EventLoopFree
  /\ chunks # <<>>
  /\ OnScript(s)
  /\ now + 10 <= NextEventAt(s)
  /\ now' = now + 10
  /\ UNCHANGED <<ticks, pc, messageId, throttleVars, streamVars, finalVars,
                 edits, inflight, sent, unhandled>>

ScriptNext ==
  \/ Start
  \/ TypingSettles("ok")
  \/ PlaceholderSettles("ok", 41)
  \/ FetchSettles("ok")
  \/ \E s \in Scripts : ScriptDelta(s)
  \/ \E o \in Outcomes, i \in inflight : ChunkEditSettles(o, i)
  \/ \E s \in Scripts : ScriptDone(s)
  \/ \E o \in Outcomes, i \in inflight : FinalEditSettles(o, i)
  \/ \E o \in Outcomes : ErrorSendSettles(o)
  \/ \E s \in Scripts : ScriptAdvance(s)

ScriptSpec == Init /\ [][ScriptNext]_vars

(***************************************************************************)
(* C21.  With chunks "A", "AB", "ABC" at 0, 10 and 20 ms and completion    *)
(* "ABC." at 30 ms there are exactly two edit calls, "A" with the marker   *)
(* at 0 and "ABC." without it at 30; the deferred edit is scheduled for    *)
(* 500 ms, cancelled by completion, and can never fire.                    *)
(***************************************************************************)
C21_BurstThenCompletion ==
  (chunks # <<>> /\ OnScript(ScriptBurst)) =>
    /\ ~ENABLED TimerFire
    /\ edits[1] = [kind |-> "immediate", text |-> <<"A">> \o Marker,
                   msg |-> messageId, time |-> StartTime, seen |-> 1]
    /\ (Len(chunks) >= 2 /\ completedAt = 0) =>
         /\ Len(edits) = 1
         /\ \E t \in timers : timers = {t} /\ t.at = StartTime + EDIT_THROTTLE_MS
    /\ completedAt # 0 =>
         /\ Len(edits) = 2
         /\ edits[2].kind = "final"
         /\ edits[2].text = <<"A", "B", "C", ".">>
         /\ edits[2].time = StartTime + 30
         /\ edits[2].msg = messageId
         /\ timers = {}
         /\ ~editTimeout.pending

\* The script has run, the final edit was accepted, and the time the
\* deferred edit was scheduled for has passed.
C21_Witness ==
  /\ OnScript(ScriptBurst)
  /\ Len(chunks) = 3
  /\ pc = "done"
  /\ now > StartTime + EDIT_THROTTLE_MS

(***************************************************************************)
(* C22.  With chunks at 0, 600 and 1300 ms every chunk is edited in at     *)
(* its arrival, with the marker: three edits before the final one, at 0,   *)
(* 600 and 1300, and no deferred timer is ever scheduled.                  *)
(***************************************************************************)
C22_SlowChunksAllImmediate ==
  (chunks # <<>> /\ OnScript(ScriptSlow)) =>
    /\ timers = {}
    /\ ~editTimeout.pending
    /\ Cardinality(NonFinalIdx) = Len(chunks)
    /\ \A k \in 1..Len(chunks) :
         edits[k] = [kind |-> "immediate", text |-> chunks[k] \o Marker,
                     msg |-> messageId, time |-> StartTime + ScriptSlow.at[k],
                     seen |-> k]

\* All three chunks of the script were delivered and the session ended.
C22_Witness ==
  /\ OnScript(ScriptSlow)
  /\ Len(chunks) = 3
  /\ Cardinality(NonFinalIdx) = 3
  /\ edits[3].time = StartTime + 1300
  /\ pc = "done"

(***************************************************************************)
(* The deferred timer and the order of chunk deliveries.                   *)
(***************************************************************************)
\* a is a proper prefix of b.
IsProperPrefix(a, b) ==
  /\ Len(a) < Len(b)
  /\ SubSeq(b, 1, Len(a)) = a

(***************************************************************************)
(* C27.  A scheduled deferred timer is always due at lastEditTime + T,     *)
(* however many chunks have rescheduled it; rescheduling never moves its   *)
(* time.                                                                   *)
(***************************************************************************)
C27_TimerDueAtLastEditPlusT ==
  /\ [](\A t \in timers : t.at = lastEditTime + EDIT_THROTTLE_MS)
  /\ [][\A t \in timers, u \in timers' : u.at = t.at]_vars

\* A deferred edit issued exactly one interval after the edit before it,
\* for a chunk that had replaced the chunk the timer was first set for.
C27_Witness ==
  \E i \in NonFinalIdx :
    /\ i > 1
    /\ edits[i].kind = "deferred"
    /\ edits[i].seen >= edits[i - 1].seen + 2
    /\ edits[i].time = edits[i - 1].time + EDIT_THROTTLE_MS

(***************************************************************************)
(* C28.  While a deferred timer stays scheduled lastEditTime does not      *)
(* change: no edit is issued between the scheduling of a timer and its     *)
(* firing or cancellation.                                                 *)
(***************************************************************************)
C28_NoEditWhileTimerScheduled ==
  [][\A t \in timers :
       t \in timers' => (lastEditTime' = lastEditTime /\ edits' = edits)]_vars

\* A timer has fired, its edit is the last one, and a later chunk has
\* scheduled the next timer.
C28_Witness ==
  /\ edits # <<>>
  /\ edits[Len(edits)].kind = "deferred"
  /\ edits[Len(edits)].time = lastEditTime
  /\ \E t \in timers : t.id > edits[Len(edits)].seen

(***************************************************************************)
(* C29.  Chunks are delivered one after the other: while the immediate     *)
(* edit awaited by onChunk is in flight generateGreetingStream waits for   *)
(* it and no further chunk reaches the throttle.                           *)
(***************************************************************************)
C29_ChunksSequential ==
  /\ [](InflightOf("immediate") # {} =>
          /\ pc \in {"chunkEdit", "fallbackEdit"}
          /\ Cardinality(InflightOf("immediate")) = 1
          /\ \A i \in InflightOf("immediate") : edits[i].seen = Len(chunks))
  /\ [][InflightOf("immediate") # {} => chunks' = chunks]_vars

\* The edit of a second or later chunk is still awaited some time after
\* it was issued.
C29_Witness ==
  \E i \in InflightOf("immediate") :
    /\ edits[i].seen >= 2
    /\ now > edits[i].time
    /\ pc = "chunkEdit"

(***************************************************************************)
(* C30, as stated.  Every chunk delivered to onChunk has the chunk before  *)
(* it as a proper prefix.                                                  *)
(***************************************************************************)
C30_ChunksGrow ==
  \A k \in 2..Len(chunks) : IsProperPrefix(chunks[k - 1], chunks[k])

(***************************************************************************)
(* POST /webhook and handleUpdate (index.js:27-85).                        *)
(***************************************************************************)
\* The updates considered: one without a message (an edited message, a
\* callback query, ...) and messages with or without sender, text and
\* first name.
MessageTexts ==
  {NoText, "", "/start", "/greeting", "hello", "/start@newyearbot", "/help"}
FirstNames == {NoName, "Ann"}
ChatIds == {7, 8}
Updates ==
  {Update(FALSE, FALSE, NoText, NoName, 0)}
    \cup {Update(TRUE, TRUE, t, n, c) :
            t \in MessageTexts, n \in FirstNames, c \in ChatIds}
    \cup {Update(TRUE, FALSE, t, NoName, c) : t \in MessageTexts, c \in ChatIds}

\* extractUserInfo (telegram.js:255-271): null without message or sender.
NoUser == [firstName |-> NoName, chatId |-> 0]
extractUserInfo(u) ==
  IF ~u.message \/ ~u.from
    THEN NoUser
    ELSE [firstName |-> u.firstName, chatId |-> u.chatId]

\* index.js:78-82: the welcome text, with the first name when there is one.
WelcomeText(firstName) ==
  IF firstName = NoName THEN <<"WELCOME">> ELSE <<"WELCOME", firstName>>

\* A request arrives, with any of the updates.
InitWebhook ==
  /\ cur = 1
  /\ other = FreshSession
  /\ pc = "idle"
  /\ now = StartTime
  /\ ticks = 0
  /\ messageId = 0
  /\ lastEditTime = 0
  /\ pendingText = <<>>
  /\ editTimeout = NoTimer
  /\ timers = {}
  /\ fullText = <<>>
  /\ finalGreeting = <<>>
  /\ completedAt = 0
  /\ chunks = <<>>
  /\ edits = <<>>
  /\ inflight = {}
  /\ finalResult = "none"
  /\ sent = <<>>
  /\ success = FALSE
  /\ unhandled = FALSE
  /\ update \in Updates
  /\ wpc = "received"
  /\ route = "none"
  /\ responses = <<>>
  /\ attempt = 0
  /\ polls = 0
  /\ ppc = "idle"
  /\ pollResult = "none"
  /\ imageLog = "none"
  /\ songLog = "none"
  /\ actionInterval = FALSE
  /\ actions = 0
  /\ lastStatus = "none"
  /\ statuses = <<>>
  /\ statusThrew = FALSE
  /\ gpc = "idle"
  /\ songResult = "none"
  /\ body = <<>>
  /\ pos = 0
  /\ buffer = <<>>
  /\ lines = <<>>

\* Webhook with a greeting for every message that is not /start.
WebhookGreetsAll ==
  /\ Alive
  /\ wpc = "received"
  /\ responses' = Append(responses, 200)
  /\ LET userInfo == extractUserInfo(update)
         text == IF update.text = NoText THEN "" ELSE update.text
     IN IF userInfo = NoUser
          THEN /\ route' = "skip"
               /\ wpc' = "finished"
               /\ UNCHANGED sent
          ELSE IF text = "/start"
            THEN /\ route' = "start"
                 /\ wpc' = "start"
                 /\ sendMessage(WelcomeText(userInfo.firstName))
            ELSE /\ route' = "greeting"
                 /\ wpc' = "greeting"
                 /\ UNCHANGED sent
  /\ UNCHANGED <<pc, now, ticks, messageId, throttleVars, streamVars,
                 finalVars, edits, inflight, unhandled, cur, other, update,
                 pollVars, flowVars, genVars, parseVars>>

\* The handler of POST /webhook up to its first await: 200 is sent, then
\* handleUpdate runs.  handleStart awaits its sendMessage; handleGreeting
\* is entered with its own first await (Start).
Webhook ==
  /\ Alive
  /\ wpc = "received"
  /\ responses' = Append(responses, 200)
  /\ LET userInfo == extractUserInfo(update)
         text == IF update.text = NoText THEN "" ELSE update.text
     IN IF userInfo = NoUser
          THEN /\ route' = "skip"
               /\ wpc' = "finished"
               /\ UNCHANGED sent
          ELSE IF text = "/start"
            THEN /\ route' = "start"
                 /\ wpc' = "start"
                 /\ sendMessage(WelcomeText(userInfo.firstName))
            ELSE IF text = "/greeting" \/ text # ""
              THEN /\ route' = "greeting"
                   /\ wpc' = "greeting"
                   /\ UNCHANGED sent
              ELSE /\ route' = "skip"
                   /\ wpc' = "finished"
                   /\ UNCHANGED sent
  /\ UNCHANGED <<pc, now, ticks, messageId, throttleVars, streamVars,
                 finalVars, edits, inflight, unhandled, cur, other, update,
                 pollVars, flowVars, genVars, parseVars>>

\* The sendMessage of handleStart settles.  It throws unless data.ok, and
\* nothing in handleStart or handleUpdate catches: the handler's catch
\* calls res.sendStatus again, which throws as the response is sent.
WelcomeSettles(o) ==
  /\ Alive
  /\ wpc = "start"
  /\ wpc' = "finished"
  /\ responses' = IF o = "ok" THEN responses ELSE Append(responses, 200)
  /\ \E escapes \in BOOLEAN : unhandled' = (escapes /\ o # "ok")
  /\ UNCHANGED <<pc, now, ticks, messageId, throttleVars, streamVars,
                 finalVars, edits, inflight, sent, cur, other, update, route,
                 pollVars, flowVars, genVars, parseVars>>

\* A request, followed until handleUpdate returns or the greeting session
\* has sent its placeholder.
WebhookNext ==
  \/ Webhook
  \/ \E o \in Outcomes : WelcomeSettles(o)
  \/ Start
  \/ \E o \in Outcomes : TypingSettles(o)
  \/ \E o \in Outcomes, id \in MessageIds : PlaceholderSettles(o, id)
  \/ \E o \in Outcomes : ErrorSendSettles(o)

WebhookSpec == InitWebhook /\ [][WebhookNext]_vars

(***************************************************************************)
(* C23, as stated.  A message with the text /start gets the welcome        *)
(* message only and starts no greeting session; every other message        *)
(* starts a greeting session.                                              *)
(***************************************************************************)
C23_Routing ==
  (wpc # "received" /\ update.message) =>
    IF update.text = "/start"
      THEN /\ route = "start"
           /\ pc = "idle"
           /\ sent = <<WelcomeText(update.firstName)>>
      ELSE route = "greeting"

(***************************************************************************)
(* C24, as stated.  Every request gets exactly one response, 200, sent     *)
(* before the update is processed; no second response is attempted.        *)
(***************************************************************************)
C24_OneResponse ==
  /\ Len(responses) <= 1
  /\ wpc # "received" => responses = <<200>>

(***************************************************************************)
(* pollForCompletion (src/src/suno.js:66-125).                             *)
(***************************************************************************)
\* suno.js:67-68
maxAttempts == 36
pollInterval == 5000

\* What a record-info request can come to: the fetch or the parse of its
\* body throwing, or a body whose data.status is SUCCESS with or without
\* songs, FIRST_SUCCESS, a status containing FAILED or ERROR, a status
\* that is no string, or any other status (PENDING, TEXT_SUCCESS, none).
PollOutcomes ==
  {"throws", "SUCCESS", "SUCCESS_NO_SONGS", "FIRST_SUCCESS",
   "GENERATE_AUDIO_FAILED", "CALLBACK_EXCEPTION_ERROR", "NOT_A_STRING",
   "PENDING"}

\* status?.includes('FAILED') || status?.includes('ERROR')
IsFailure(status) ==
  status \in {"GENERATE_AUDIO_FAILED", "CALLBACK_EXCEPTION_ERROR"}

\* Everything pollForCompletion leaves alone.
notPollVars ==
  <<pc, ticks, messageId, throttleVars, streamVars, finalVars, edits,
    inflight, sent, unhandled, cur, other, webVars, flowVars, genVars,
    parseVars>>

\* pollForCompletion is called: the first request is issued.
PollStart ==
  /\ Alive
  /\ ppc = "idle"
  /\ attempt' = 1
  /\ polls' = polls + 1
  /\ ppc' = "fetch"
  /\ UNCHANGED <<now, pollResult, lastStatus, statuses, statusThrew,
                 notPollVars>>

\* PollSettles with a throwing request ending the polling.
PollSettlesThrowStops(status) ==
  /\ Alive
  /\ ppc = "fetch"
  /\ lastStatus' = status
  /\ statuses' = IF status = "FIRST_SUCCESS"
                   THEN Append(statuses, "almost_done")
                   ELSE statuses
  /\ IF status = "SUCCESS"
       THEN ppc' = "returned" /\ pollResult' = "song"
       ELSE IF status \in {"SUCCESS_NO_SONGS", "throws"} \/ IsFailure(status)
         THEN ppc' = "returned" /\ pollResult' = "null"
         ELSE IF status = "FIRST_SUCCESS"
           THEN ppc' = "onStatus" /\ pollResult' = pollResult
           ELSE ppc' = "wait" /\ pollResult' = pollResult
  /\ UNCHANGED <<now, attempt, polls, statusThrew, notPollVars>>

\* The request of this attempt settles (suno.js:72-111).
PollSettles(status) ==
  /\ Alive
  /\ ppc = "fetch"
  /\ lastStatus' = status
  /\ statuses' = IF status = "FIRST_SUCCESS"
                   THEN Append(statuses, "almost_done")
                   ELSE statuses
  /\ IF status = "SUCCESS"
       THEN ppc' = "returned" /\ pollResult' = "song"
       ELSE IF status = "SUCCESS_NO_SONGS" \/ IsFailure(status)
         THEN ppc' = "returned" /\ pollResult' = "null"
         ELSE IF status = "FIRST_SUCCESS"
           THEN ppc' = "onStatus" /\ pollResult' = pollResult
           ELSE ppc' = "wait" /\ pollResult' = pollResult
  /\ UNCHANGED <<now, attempt, polls, statusThrew, notPollVars>>

\* onStatus('almost_done') settles (suno.js:104-106): resolved, the wait
\* of the try follows; rejected, the wait of the catch.
OnStatusSettles(o) ==
  /\ Alive
  /\ ppc = "onStatus"
  /\ ppc' = "wait"
  /\ statusThrew' = (statusThrew \/ o = "reject")
  /\ UNCHANGED <<now, attempt, polls, pollResult, lastStatus, statuses,
                 notPollVars>>

\* PollWaitEnds with the loop counter left as it is.
PollWaitEndsNoCount ==
  /\ Alive
  /\ ppc = "wait"
  /\ now' = now + pollInterval
  /\ attempt' = attempt
  /\ polls' = polls + 1
  /\ ppc' = "fetch"
  /\ pollResult' = pollResult
  /\ UNCHANGED <<lastStatus, statuses, statusThrew, notPollVars>>

\* The wait of pollInterval is over (suno.js:114, 119): the next attempt
\* issues its request, or the loop ends and null is returned.
PollWaitEnds ==
  /\ Alive
  /\ ppc = "wait"
  /\ now' = now + pollInterval
  /\ attempt' = attempt + 1
  /\ IF attempt + 1 <= maxAttempts
       THEN /\ polls' = polls + 1
            /\ ppc' = "fetch"
            /\ pollResult' = pollResult
       ELSE /\ polls' = polls
            /\ ppc' = "returned"
            /\ pollResult' = "null"
  /\ UNCHANGED <<lastStatus, statuses, statusThrew, notPollVars>>

PollNext ==
  \/ PollStart
  \/ \E status \in PollOutcomes : PollSettles(status)
  \/ \E o \in Outcomes : OnStatusSettles(o)
  \/ PollWaitEnds

PollSpec == Init /\ [][PollNext]_vars

\* What is left of the loop: three steps for every attempt still to come.
PollRank ==
  IF ppc = "returned" THEN 0
  ELSE IF ppc = "idle" THEN 3 * maxAttempts + 4
  ELSE 3 * (maxAttempts - attempt)
         + (CASE ppc = "fetch" -> 3 [] ppc = "onStatus" -> 2 [] ppc = "wait" -> 1)

(***************************************************************************)
(* C26.  pollForCompletion issues at most 36 requests and always           *)
(* terminates: every step brings its end nearer, a step is possible until  *)
(* it has returned, and when no request reported a final status it         *)
(* returns null after the 36th.                                            *)
(***************************************************************************)
C26_PollingBounded ==
  /\ [](/\ polls <= maxAttempts
        /\ ppc # "idle" => polls = IF attempt > maxAttempts THEN maxAttempts
                                                            ELSE attempt
        /\ ppc = "returned" \/ ENABLED PollNext
        /\ ppc = "returned" => pollResult \in {"song", "null"}
        /\ (ppc = "returned" /\ attempt > maxAttempts) => pollResult = "null"
        /\ now <= StartTime + maxAttempts * pollInterval)
  /\ [][PollRank' < PollRank]_vars

\* All 36 requests were issued, none reported a final status, and null
\* was returned after the last wait.
C26_Witness ==
  /\ ppc = "returned"
  /\ polls = maxAttempts
  /\ attempt = maxAttempts + 1
  /\ pollResult = "null"
  /\ now = StartTime + maxAttempts * pollInterval

(***************************************************************************)
(* The sub-flows of the later handleGreeting (part_004:251-402): after     *)
(* the final edit, handleImageGeneration and then handleSongGeneration.    *)
(***************************************************************************)
ImageStatusText == <<"DRAWING">>
SongStatusText == <<"COMPOSING">>

ImageStages ==
  {"imgStatus", "imgAction", "imgGenerate", "imgDelete", "imgPhoto", "imgEdit"}
SongStages ==
  {"songStatus", "songGenerate", "songReadyEdit", "songAudio", "songDelete",
   "songFailEdit", "songCatchEdit"}

\* Everything the sub-flows leave alone.
notFlowVars ==
  <<now, ticks, messageId, throttleVars, streamVars, finalVars, edits,
    inflight, cur, other, webVars, pollVars, genVars, parseVars>>

\* handleSongGeneration is called (part_004:268, 327-336): its status
\* message is sent and awaited.
handleSongGeneration ==
  /\ sendMessage(SongStatusText)
  /\ pc' = "songStatus"
  /\ UNCHANGED <<songLog, intervalVars, unhandled>>

\* The catch of handleImageGeneration passing the error on.
imageCatchRethrow ==
  /\ imageLog' = "error"
  /\ catchError
  /\ UNCHANGED <<songLog, intervalVars, unhandled>>

\* The catch of handleImageGeneration (part_004:317-320): the error is
\* logged, handleImageGeneration returns and the song follows.
imageCatch ==
  /\ imageLog' = "error"
  /\ handleSongGeneration

\* part_004:262-265, 286-289: the greeting is sent, handleImageGeneration
\* is called and sends its status message.
ImageStart ==
  /\ Alive
  /\ pc = "done"
  /\ sendMessage(ImageStatusText)
  /\ pc' = "imgStatus"
  /\ UNCHANGED <<flowVars, unhandled, notFlowVars>>

\* The status message's sendMessage settles; it throws unless data.ok.
ImageStatusSettles(o) ==
  /\ Alive
  /\ pc = "imgStatus"
  /\ IF o = "ok"
       THEN pc' = "imgAction" /\ UNCHANGED <<sent, flowVars, unhandled>>
       ELSE imageCatch
  /\ UNCHANGED notFlowVars

\* sendChatAction('upload_photo') settles; only a failing fetch throws.
ImageActionSettles(o) ==
  /\ Alive
  /\ pc = "imgAction"
  /\ IF o = "reject"
       THEN imageCatch
       ELSE pc' = "imgGenerate" /\ UNCHANGED <<sent, flowVars, unhandled>>
  /\ UNCHANGED notFlowVars

\* generateGreetingCard returns a URL or null; it throws nothing.
ImageGenerated(hasUrl) ==
  /\ Alive
  /\ pc = "imgGenerate"
  /\ pc' = IF hasUrl THEN "imgDelete" ELSE "imgEdit"
  /\ UNCHANGED <<sent, flowVars, unhandled, notFlowVars>>

\* deleteMessage settles (part_004:409-423): a failing fetch is ignored,
\* a body that cannot be parsed rejects the promise it returns.
ImageDeleteSettles(o) ==
  /\ Alive
  /\ pc = "imgDelete"
  /\ IF o = "reject"
       THEN imageCatch
       ELSE pc' = "imgPhoto" /\ UNCHANGED <<sent, flowVars, unhandled>>
  /\ UNCHANGED notFlowVars

\* sendPhoto settles; it throws unless data.ok.
ImagePhotoSettles(o) ==
  /\ Alive
  /\ pc = "imgPhoto"
  /\ IF o = "ok"
       THEN imageLog' = "sent" /\ handleSongGeneration
       ELSE imageCatch
  /\ UNCHANGED notFlowVars

\* The edit that tells the card could not be drawn settles.
ImageEditSettles(o) ==
  /\ Alive
  /\ pc = "imgEdit"
  /\ IF o = "reject"
       THEN imageCatch
       ELSE imageLog' = "declined" /\ handleSongGeneration
  /\ UNCHANGED notFlowVars

\* The catch of handleSongGeneration with statusMessageId set
\* (part_004:392-400): an edit is awaited inside the catch.
songCatch ==
  /\ songLog' = "error"
  /\ pc' = "songCatchEdit"
  /\ UNCHANGED <<sent, imageLog, intervalVars, unhandled>>

\* The song's status message settles.  When it throws statusMessageId is
\* still null and the catch only logs; otherwise the interval is set and
\* generateSong is called and awaited (part_004:355-360).
SongStatusSettles(o) ==
  /\ Alive
  /\ pc = "songStatus"
  /\ IF o = "ok"
       THEN /\ pc' = "songGenerate"
            /\ actionInterval' = TRUE
            /\ UNCHANGED songLog
       ELSE /\ pc' = "allDone"
            /\ songLog' = "error"
            /\ UNCHANGED actionInterval
  /\ UNCHANGED <<sent, imageLog, actions, unhandled, notFlowVars>>

\* The interval of part_004:355-357 fires, as it does every 4 seconds
\* for as long as it is scheduled: sendChatAction is called and its
\* promise dropped.
SongActionInterval(o) ==
  /\ Alive
  /\ EventLoopFree
  /\ actionInterval
  /\ actions < MaxActions
  /\ actions' = actions + 1
  /\ unhandled' = (o = "reject")
  /\ UNCHANGED <<pc, sent, imageLog, songLog, actionInterval, notFlowVars>>

\* SongGenerated with the interval left scheduled.
SongGeneratedNoClear(hasSong) ==
  /\ Alive
  /\ pc = "songGenerate"
  /\ pc' = IF hasSong THEN "songReadyEdit" ELSE "songFailEdit"
  /\ UNCHANGED <<sent, flowVars, unhandled, notFlowVars>>

\* generateSong returns a song or null (suno.js:13-58 catches everything)
\* and the interval is cleared (part_004:360-362).
SongGenerated(hasSong) ==
  /\ Alive
  /\ pc = "songGenerate"
  /\ pc' = IF hasSong THEN "songReadyEdit" ELSE "songFailEdit"
  /\ actionInterval' = FALSE
  /\ UNCHANGED <<sent, imageLog, songLog, actions, unhandled, notFlowVars>>

\* The edit 'song is ready' settles.
SongReadyEditSettles(o) ==
  /\ Alive
  /\ pc = "songReadyEdit"
  /\ IF o = "reject"
       THEN songCatch
       ELSE pc' = "songAudio" /\ UNCHANGED <<sent, flowVars, unhandled>>
  /\ UNCHANGED notFlowVars

\* sendAudio settles; it throws unless data.ok.
SongAudioSettles(o) ==
  /\ Alive
  /\ pc = "songAudio"
  /\ IF o = "ok"
       THEN pc' = "songDelete" /\ UNCHANGED <<sent, flowVars, unhandled>>
       ELSE songCatch
  /\ UNCHANGED notFlowVars

\* The deleteMessage of the song's status message settles.
SongDeleteSettles(o) ==
  /\ Alive
  /\ pc = "songDelete"
  /\ IF o = "reject"
       THEN songCatch
       ELSE /\ pc' = "allDone"
            /\ songLog' = "sent"
            /\ UNCHANGED <<sent, imageLog, intervalVars, unhandled>>
  /\ UNCHANGED notFlowVars

\* The edit that tells no song could be made settles.
SongFailEditSettles(o) ==
  /\ Alive
  /\ pc = "songFailEdit"
  /\ IF o = "reject"
       THEN songCatch
       ELSE /\ pc' = "allDone"
            /\ songLog' = "declined"
            /\ UNCHANGED <<sent, imageLog, intervalVars, unhandled>>
  /\ UNCHANGED notFlowVars

\* The edit awaited in the catch of handleSongGeneration settles; when it
\* rejects handleSongGeneration rejects into the catch of handleGreeting.
SongCatchEditSettles(o) ==
  /\ Alive
  /\ pc = "songCatchEdit"
  /\ IF o = "reject"
       THEN catchError
       ELSE pc' = "allDone" /\ UNCHANGED sent
  /\ UNCHANGED <<flowVars, unhandled, notFlowVars>>

\* A session whose stream fails at once or returns after at most
\* MaxChunks deltas, followed through its sub-flows.
FlowNext ==
  \/ Start
  \/ TypingSettles("ok")
  \/ PlaceholderSettles("ok", 41)
  \/ \E o \in Outcomes : FetchSettles(o)
  \/ ReadDelta(<<"a">>)
  \/ \E i \in inflight : ChunkEditSettles("ok", i)
  \/ ReadDone
  \/ \E o \in Outcomes, i \in inflight : FallbackEditSettles(o, i)
  \/ FallbackReturn
  \/ \E o \in Outcomes, i \in inflight : FinalEditSettles(o, i)
  \/ \E o \in Outcomes : ErrorSendSettles(o)
  \/ ImageStart
  \/ \E o \in Outcomes : ImageStatusSettles(o)
  \/ \E o \in Outcomes : ImageActionSettles(o)
  \/ \E hasUrl \in BOOLEAN : ImageGenerated(hasUrl)
  \/ \E o \in Outcomes : ImageDeleteSettles(o)
  \/ \E o \in Outcomes : ImagePhotoSettles(o)
  \/ \E o \in Outcomes : ImageEditSettles(o)
  \/ \E o \in Outcomes : SongStatusSettles(o)
  \/ \E o \in Outcomes : SongActionInterval(o)
  \/ \E hasSong \in BOOLEAN : SongGenerated(hasSong)
  \/ \E o \in Outcomes : SongReadyEditSettles(o)
  \/ \E o \in Outcomes : SongAudioSettles(o)
  \/ \E o \in Outcomes : SongDeleteSettles(o)
  \/ \E o \in Outcomes : SongFailEditSettles(o)
  \/ \E o \in Outcomes : SongCatchEditSettles(o)

FlowSpec == Init /\ [][FlowNext]_vars

(***************************************************************************)
(* C25.  The sub-flows run after the greeting is done and one after the    *)
(* other: the image sub-flow starts only when the final edit has           *)
(* returned, the song sub-flow only when the image sub-flow has ended,     *)
(* and however the image sub-flow ends, by a failure too, the song         *)
(* sub-flow is what follows and no generic failure message is sent.        *)
(***************************************************************************)
C25_SubflowsInSequence ==
  /\ [](pc \in ImageStages \cup SongStages \cup {"allDone"} =>
          /\ success
          /\ finalResult \in {"ok", "notok"}
          /\ FinalIdx \cap inflight = {})
  /\ [](pc \in ImageStages => (imageLog = "none" /\ songLog = "none"))
  /\ [](pc \in SongStages => imageLog # "none")
  /\ []((imageLog = "error" /\ pc \in SongStages \cup {"allDone"}) =>
          /\ Notices = {}
          /\ \E k \in 1..Len(sent) : sent[k] = SongStatusText)
  /\ [][(pc' \in ImageStages /\ pc \notin ImageStages) => pc = "done"]_vars
  /\ [][(pc \in ImageStages /\ pc' \notin ImageStages) =>
          /\ pc' = "songStatus"
          /\ sent' = Append(sent, SongStatusText)]_vars

\* The image sub-flow failed and the song was sent all the same.
C25_Witness ==
  /\ pc = "allDone"
  /\ imageLog = "error"
  /\ songLog = "sent"
  /\ Notices = {}

(***************************************************************************)
(* C31: the chunk source calls the callback zero or more times and then    *)
(* completes once: after completion the session is past the read loop and  *)
(* has exactly one final edit in its log.  When the stream completed       *)
(* without failure after zero callbacks, the completion text is empty, and *)
(* the log holds that one final edit, with the empty text, and no edit     *)
(* with the marker.                                                        *)
(***************************************************************************)
C31_EmptyStreamOneFinalEdit ==
  /\ completedAt # 0 =>
       /\ pc \in {"finalEdit", "done", "errorSend", "failed"}
       /\ Cardinality(FinalIdx) = 1
  /\ (completedAt # 0 /\ chunks = <<>>) =>
       /\ finalGreeting = <<>>
       /\ NonFinalIdx = {}
       /\ \A i \in FinalIdx : edits[i].text = <<>>

C31_Witness ==
  /\ completedAt # 0
  /\ chunks = <<>>
  /\ pc = "done"
  /\ Len(edits) = 1
  /\ edits[1].kind = "final"
  /\ edits[1].text = <<>>

(***************************************************************************)
(* The read loop of generateGreetingStream (part_003:317-352): the body    *)
(* arrives in reads of any size, is cut into lines at the newlines, and    *)
(* every complete line is handled.  The body is a sequence of tokens: NL   *)
(* is a newline, D the prefix 'data: ', Ja and Js the JSON of a completion *)
(* chunk whose delta content is 'a' or ' ', J0 that of a chunk without     *)
(* content, X the text '[DONE]'.                                           *)
(***************************************************************************)
MaxLines == 2

LineKinds == {<<"D", "Ja">>, <<"D", "Js">>, <<"D", "J0">>, <<"D", "X">>, <<>>}

\* The lines joined, a newline after each but, when open, the last.
RECURSIVE JoinLines(_, _)
JoinLines(ls, open) ==
  IF ls = <<>> THEN <<>>
  ELSE IF Len(ls) = 1 /\ open THEN ls[1]
  ELSE ls[1] \o <<"NL">> \o JoinLines(Tail(ls), open)

\* The bodies considered: at most MaxLines lines, the last of them
\* terminated by a newline or not.
Bodies ==
  {JoinLines(ls, open) :
     ls \in UNION {[1..n -> LineKinds] : n \in 0..MaxLines},
     open \in BOOLEAN}

\* s.split('\n'): the pieces between the newlines, one more than newlines.
RECURSIVE split(_)
split(s) ==
  IF s = <<>> THEN << <<>> >>
  ELSE LET rest == split(Tail(s))
       IN IF Head(s) = "NL"
            THEN << <<>> >> \o rest
            ELSE << <<Head(s)>> \o rest[1] >> \o Tail(rest)

\* json.choices?.[0]?.delta?.content of a token that parses as JSON.
Content(j) ==
  CASE j = "Ja" -> <<"a">>
    [] j = "Js" -> <<" ">>
    [] OTHER -> <<>>

\* part_003:329-339: the delta a line carries, <<>> when the line is
\* empty, is '[DONE]', does not begin with 'data: ', does not parse or
\* has no content.
DeltaOf(line) ==
  IF Len(line) = 2 /\ line[1] = "D" /\ line[2] \in {"Ja", "Js", "J0"}
    THEN Content(line[2])
    ELSE <<>>

InitParse ==
  /\ cur = 1
  /\ other = FreshSession
  /\ pc = "idle"
  /\ now = StartTime
  /\ ticks = 0
  /\ messageId = 0
  /\ lastEditTime = 0
  /\ pendingText = <<>>
  /\ editTimeout = NoTimer
  /\ timers = {}
  /\ fullText = <<>>
  /\ finalGreeting = <<>>
  /\ completedAt = 0
  /\ chunks = <<>>
  /\ edits = <<>>
  /\ inflight = {}
  /\ finalResult = "none"
  /\ sent = <<>>
  /\ success = FALSE
  /\ unhandled = FALSE
  /\ update = GreetingUpdate
  /\ wpc = "greeting"
  /\ route = "greeting"
  /\ responses = <<200>>
  /\ attempt = 0
  /\ polls = 0
  /\ ppc = "idle"
  /\ pollResult = "none"
  /\ imageLog = "none"
  /\ songLog = "none"
  /\ actionInterval = FALSE
  /\ actions = 0
  /\ lastStatus = "none"
  /\ statuses = <<>>
  /\ statusThrew = FALSE
  /\ gpc = "idle"
  /\ songResult = "none"
  /\ body \in Bodies
  /\ pos = 0
  /\ buffer = <<>>
  /\ lines = <<>>

\* Everything the read loop leaves alone but the session's own state.
notParseVars ==
  <<now, ticks, messageId, finalVars, sent, unhandled, cur, other, webVars,
    pollVars, flowVars, genVars>>

\* reader.read() delivers the next n tokens of the body (part_003:323-328):
\* they are appended to buffer, the complete lines are taken off and the
\* unfinished rest stays in buffer.
ReaderRead(n) ==
  /\ Alive
  /\ pc = "reading"
  /\ lines = <<>>
  /\ pos + n <= Len(body)
  /\ LET parts == split(buffer \o SubSeq(body, pos + 1, pos + n))
     IN /\ lines' = SubSeq(parts, 1, Len(parts) - 1)
        /\ buffer' = parts[Len(parts)]
  /\ pos' = pos + n
  /\ UNCHANGED <<pc, body, throttleVars, streamVars, edits, inflight,
                 notParseVars>>

\* The for loop handles the next line of this read (part_003:329-347): a
\* line with content extends fullText and onChunk is called and awaited.
HandleLine ==
  /\ Alive
  /\ pc = "reading"
  /\ lines # <<>>
  /\ lines' = Tail(lines)
  /\ LET delta == DeltaOf(Head(lines))
     IN IF delta # <<>>
          THEN /\ fullText' = fullText \o delta
               /\ onChunk(fullText', "chunkEdit", "reading")
          ELSE UNCHANGED <<pc, throttleVars, streamVars, edits, inflight>>
  /\ UNCHANGED <<body, pos, buffer, notParseVars>>

\* reader.read() reports done once the body is delivered (part_003:324,
\* 352): what is left in buffer is not looked at.
ReaderDone ==
  /\ lines = <<>>
  /\ pos = Len(body)
  /\ ReadDone

\* A session whose completion request answers with one of Bodies, read in
\* pieces of every size, all outbound calls succeeding.
ParseNext ==
  \/ Start
  \/ TypingSettles("ok")
  \/ PlaceholderSettles("ok", 41)
  \/ FetchSettles("ok")
  \/ \E n \in 1..(3 * MaxLines) : ReaderRead(n)
  \/ HandleLine
  \/ \E i \in inflight : ChunkEditSettles("ok", i)
  \/ ReaderDone
  \/ \E i \in inflight : FinalEditSettles("ok", i)

ParseSpec == InitParse /\ [][ParseNext]_vars

\* The delta contents of the lines ls, joined in order.
RECURSIVE AllDeltas(_)
AllDeltas(ls) ==
  IF ls = <<>> THEN <<>> ELSE DeltaOf(Head(ls)) \o AllDeltas(Tail(ls))

\* The lines of ls that carry a non-empty delta.
WithDelta(ls) == {k \in 1..Len(ls) : DeltaOf(ls[k]) # <<>>}

(***************************************************************************)
(* C32, as stated.  However the body is cut into reads, and also when its  *)
(* last line is not terminated by a newline, the completion text is the    *)
(* trimmed concatenation of the delta contents of all lines of the body,   *)
(* and one chunk was emitted for every line with a non-empty delta.        *)
(***************************************************************************)
C32_Reassembly ==
  completedAt # 0 =>
    /\ finalGreeting = trim(AllDeltas(split(body)))
    /\ Len(chunks) = Cardinality(WithDelta(split(body)))

(***************************************************************************)
(* C33.  When the session has ended (Done or Failed, and already while     *)
(* the generic failure message is being sent) no deferred-edit timer of    *)
(* the session is scheduled, so that no timer can fire and issue an edit   *)
(* after the end.                                                          *)
(***************************************************************************)
C33_NoTimerAfterEnd ==
  pc \in {"done", "failed", "errorSend"} =>
    /\ timers = {}
    /\ ~ENABLED TimerFire

\* A session that had a timer scheduled is Done; another has Failed after
\* its stream's fallback chunk was deferred to a timer.
C33_Witness ==
  /\ pc \in {"done", "failed"}
  /\ timers = {}
  /\ \E k \in 1..Len(chunks) :
       \A i \in EditIdx : edits[i].kind = "final" \/ edits[i].seen # k

(***************************************************************************)
(* C34, as stated.  Once 'Greeting sent successfully' was reached the      *)
(* generic failure message is never sent for the request, whatever fails   *)
(* in the image or song sub-flow.                                          *)
(***************************************************************************)
C34_NoNoticeAfterDone ==
  success => Notices = {}

(***************************************************************************)
(* C35.  pollForCompletion returns a song only when the latest request     *)
(* reported SUCCESS with songs; it has returned null as soon as a request  *)
(* reported SUCCESS without songs or a status containing FAILED or ERROR;  *)
(* a request that throws does not end the polling: after the wait the      *)
(* next attempt follows, the throwing one counted, and only the 36th       *)
(* attempt's throw is followed by the return of null.                      *)
(***************************************************************************)
C35_PollResult ==
  /\ [](pollResult = "song" => (ppc = "returned" /\ lastStatus = "SUCCESS"))
  /\ [](lastStatus = "SUCCESS" => (ppc = "returned" /\ pollResult = "song"))
  /\ []((lastStatus = "SUCCESS_NO_SONGS" \/ IsFailure(lastStatus)) =>
          (ppc = "returned" /\ pollResult = "null"))
  /\ []((lastStatus = "throws" /\ ppc = "returned") =>
          (attempt > maxAttempts /\ pollResult = "null"))
  /\ [][(lastStatus' = "throws" /\ ppc = "fetch") =>
          (ppc' \in {"fetch", "wait"} /\ attempt' = attempt
           /\ pollResult' = "none")]_vars
  /\ [][(lastStatus = "throws" /\ ppc = "wait") =>
          /\ attempt' = attempt + 1
          /\ IF attempt < maxAttempts
               THEN ppc' = "fetch" /\ polls' = polls + 1
               ELSE ppc' = "returned" /\ polls' = polls]_vars

\* The 35th request threw and the 36th is under way.
C35_Witness ==
  /\ lastStatus = "throws"
  /\ ppc = "fetch"
  /\ attempt = maxAttempts
  /\ polls = maxAttempts

(***************************************************************************)
(* generateSong (src/src/suno.js:13-58), called with a status callback as  *)
(* handleSongGeneration does.                                              *)
(***************************************************************************)
\* What the request that starts the generation can come to: the fetch or
\* the reading of its body throwing, a body with code 200 and a task, or
\* a body with another code.
StartOutcomes == {"throws", "code200", "codeOther"}

\* The variables generateSong leaves alone before it polls.
notGenVars ==
  <<pc, now, ticks, messageId, throttleVars, streamVars, finalVars, edits,
    inflight, sent, unhandled, cur, other, webVars, flowVars, parseVars,
    attempt, polls, ppc, pollResult, lastStatus>>

\* The catch of generateSong (suno.js:54-57).
genCatch ==
  /\ gpc' = "returned"
  /\ songResult' = "null"

\* generateSong is called (suno.js:14-17): the prompt is built and
\* onStatus('starting') is called and awaited.
GenStart ==
  /\ Alive
  /\ gpc = "idle"
  /\ statuses' = Append(statuses, "starting")
  /\ gpc' = "starting"
  /\ UNCHANGED <<songResult, statusThrew, notGenVars>>

\* onStatus('starting') settles: the start request is issued, or the
\* callback's throw is caught.
StartingSettles(o) ==
  /\ Alive
  /\ gpc = "starting"
  /\ statusThrew' = (statusThrew \/ o = "reject")
  /\ IF o = "reject"
       THEN genCatch
       ELSE gpc' = "post" /\ UNCHANGED songResult
  /\ UNCHANGED <<statuses, notGenVars>>

\* The start request settles (suno.js:20-48): with code 200 the task is
\* started and onStatus('generating') is called and awaited.
PostSettles(r) ==
  /\ Alive
  /\ gpc = "post"
  /\ CASE r = "throws" -> genCatch /\ UNCHANGED statuses
       [] r = "codeOther" ->
            /\ gpc' = "returned"
            /\ songResult' = "null"
            /\ UNCHANGED statuses
       [] r = "code200" ->
            /\ statuses' = Append(statuses, "generating")
            /\ gpc' = "generating"
            /\ UNCHANGED songResult
  /\ UNCHANGED <<statusThrew, notGenVars>>

\* GeneratingSettles with polling started whatever the callback came to.
GeneratingSettlesThrowIgnored(o) ==
  /\ Alive
  /\ gpc = "generating"
  /\ statusThrew' = (statusThrew \/ o = "reject")
  /\ gpc' = "polling"
  /\ UNCHANGED <<songResult, statuses, notGenVars>>

\* onStatus('generating') settles: pollForCompletion is called, or the
\* callback's throw is caught.
GeneratingSettles(o) ==
  /\ Alive
  /\ gpc = "generating"
  /\ statusThrew' = (statusThrew \/ o = "reject")
  /\ IF o = "reject"
       THEN genCatch
       ELSE gpc' = "polling" /\ UNCHANGED songResult
  /\ UNCHANGED <<statuses, notGenVars>>

\* suno.js:51: pollForCompletion issues its first request.
GenPoll ==
  /\ gpc = "polling"
  /\ PollStart

\* suno.js:51-52: what pollForCompletion returned is returned.
GenReturn ==
  /\ Alive
  /\ gpc = "polling"
  /\ ppc = "returned"
  /\ gpc' = "returned"
  /\ songResult' = pollResult
  /\ UNCHANGED <<statuses, statusThrew, notGenVars>>

GenNext ==
  \/ GenStart
  \/ \E o \in Outcomes : StartingSettles(o)
  \/ \E r \in StartOutcomes : PostSettles(r)
  \/ \E o \in Outcomes : GeneratingSettles(o)
  \/ GenPoll
  \/ \E status \in PollOutcomes : PollSettles(status)
  \/ \E o \in Outcomes : OnStatusSettles(o)
  \/ PollWaitEnds
  \/ GenReturn

GenSpec == Init /\ [][GenNext]_vars

\* The status callbacks come in the order 'starting', 'generating', then
\* 'almost_done' only.
StatusesInOrder ==
  \A k \in 1..Len(statuses) :
    statuses[k] = (CASE k = 1 -> "starting"
                     [] k = 2 -> "generating"
                     [] OTHER -> "almost_done")

\* generateSong resolves, to a song or null; a failure before polling
\* (the start request throwing or answering another code than 200, the
\* 'starting' or 'generating' callback throwing) resolves to null with no
\* poll issued; what polling returns is returned.
ResolvesAndStartFailures ==
  /\ [](gpc = "returned" => songResult \in {"song", "null"})
  /\ [](polls > 0 => (gpc \in {"polling", "returned"} /\ Len(statuses) >= 2))
  /\ []((gpc = "returned" /\ polls > 0) =>
          (ppc = "returned" /\ songResult = pollResult))
  /\ [][(gpc \in {"starting", "post", "generating"} /\ gpc' = "returned") =>
          (songResult' = "null" /\ polls' = 0)]_vars
  /\ [][(gpc \in {"starting", "generating"} /\ statusThrew') =>
          (gpc' = "returned" /\ songResult' = "null")]_vars

(***************************************************************************)
(* C36, as stated.  generateSong never rejects; on every failure, a        *)
(* status callback that throws included, it resolves to null; when the     *)
(* start request is answered with another code than 200 no poll is         *)
(* issued; the status callbacks come in the order 'starting',              *)
(* 'generating', then zero or more 'almost_done'.                          *)
(***************************************************************************)
C36_NullOnEveryFailure ==
  /\ ResolvesAndStartFailures
  /\ []StatusesInOrder
  /\ []((gpc = "returned" /\ statusThrew) => songResult = "null")

(***************************************************************************)
(* C36, amended.  As above, but only a throw of the 'starting' or the      *)
(* 'generating' callback makes generateSong resolve to null: a throw of    *)
(* an 'almost_done' callback is caught inside the polling loop, the wait   *)
(* follows and polling goes on, so that a song may still be returned.      *)
(***************************************************************************)
C36_NullOnFailureButAlmostDone ==
  /\ ResolvesAndStartFailures
  /\ []StatusesInOrder
  /\ [][(ppc = "onStatus" /\ statusThrew') =>
          (ppc' = "wait" /\ UNCHANGED <<gpc, songResult, attempt>>)]_vars
  /\ []((gpc = "returned" /\ songResult = "song") =>
          (lastStatus = "SUCCESS" /\ Len(statuses) >= 2))

\* An 'almost_done' callback threw and a song was returned all the same.
C36_Witness ==
  /\ gpc = "returned"
  /\ statusThrew
  /\ songResult = "song"
  /\ statuses[Len(statuses)] = "almost_done"

(***************************************************************************)
(* C37.  The 'upload_voice' interval of the song sub-flow is scheduled     *)
(* only while generateSong is awaited: on every path out of                *)
(* handleSongGeneration (song sent, no song, a call throwing) no interval  *)
(* is left, and no chat action is sent once generateSong has returned.     *)
(***************************************************************************)
C37_IntervalCleared ==
  /\ [](actionInterval => pc = "songGenerate")
  /\ [](pc \in {"allDone", "errorSend", "failed"} =>
          (~actionInterval /\ ~ENABLED (\E o \in Outcomes : SongActionInterval(o))))
  /\ [][actions' # actions => (pc = "songGenerate" /\ pc' = pc)]_vars

\* The sub-flow has ended with the song sent after the interval fired.
C37_Witness ==
  /\ pc = "allDone"
  /\ songLog = "sent"
  /\ actions > 0
  /\ ~actionInterval

====
